---- MODULE Spec2Model ----
(***************************************************************************)
(* Client-side session lifecycle of the BlogSpace frontend:                *)
(*   - localStorage keys access_token / refresh_token / user               *)
(*   - AuthProvider (context/AuthContext): user, loading, login, register, *)
(*     logout, restore-on-mount effect                                     *)
(*   - services/api.js: the axios instance `api`, its request interceptor  *)
(*     (bearer attachment) and its response interceptor (401 -> token      *)
(*     refresh through plain axios -> replay through api.request)          *)
(* and the views that use it, each with a specification of its own:       *)
(*   - SpecPostDetail: PostDetail (fetch by route id, comment form)        *)
(*   - SpecEditPost:   EditPost (fetch, ownership test, update)            *)
(*   - SpecRoute:      router, ProtectedRoute, Login, Navigation           *)
(*   - SpecLists:      Home and Search (pagination)                        *)
(*   - SpecCard:       PostCard (what a card shows of a post)              *)
(*   - SpecDashboard:  Dashboard (fetch of the user's posts, delete)       *)
(*   - SpecGate:       ProtectedRoute on page load, visit and logout       *)
(*   - SpecLive:       the loading flags of the views, with the responses  *)
(*                     arriving (fairness)                                 *)
(* The remote API is the environment: it answers every outstanding call    *)
(* with any of the responses enumerated below.                             *)
(***************************************************************************)
EXTENDS Integers, FiniteSets, Sequences, TLC

\* ---------------------------------------------------------------- bounds
\* number of call slots (calls that can be outstanding at the same time)
NumReqs == 2
\* comments the server accepts in one run (all posts, all users together)
MaxComments == 2
\* longest text typed into the comment box
MaxTextLen == 1
\* most posts the remote API holds, or that match a search
MaxPosts == 21
\* longest content of a post shown in a card
MaxContentLen == 201
\* most posts the signed-in user owns
NumUserPosts == 3

\* ---------------------------------------------------------------- values
None == "none"
Reqs == 1..NumReqs
\* access credentials the server may hand out
Tokens == {"A1", "A2"}
\* refresh credentials the server may hand out
RTokens == {"R1"}
\* user objects the server may return ({id:1,username:"alice"}, ...)
Users == {"alice", "bob"}
\* callers of the axios instance `api`
Kinds == {"api", "login", "register"}

VARIABLES
    localStorage,   \* [access_token, refresh_token, user] -> string or None
    user,           \* AuthProvider state `user` (null = None)
    loading,        \* AuthProvider state `loading`
    href,           \* window.location.href as far as the interceptor sets it
    req,            \* call slots: one record per original request; bearer is
                    \* the Authorization header of the call it has on the wire,
                    \* replayed tells that the request has been replayed,
                    \* error is the error the interceptor holds across its await
    last,           \* what the call settled by the latest step handed to its
                    \* caller (NoResult when the latest step settled no call)
    loggedOut,      \* history: logout() ran and no login/register succeeded since
    postDetail,     \* PostDetail state: route param id and the useState values
    serverComments, \* remote API: the comments of every post, in creation order
    editPost,       \* EditPost state: route param id and the useState values
    location,       \* router: pathname and state.from of the current entry
    loginForm,      \* Login state: loading and error
    home,           \* Home state: posts, loading, error, pagination
    search,         \* Search state: query, results, loading, error, pagination
    postCard,       \* PostCard: the post prop and what the card renders
    dashboard,      \* Dashboard state: posts, loading, error, deleteLoading, stats
    serverPosts,    \* remote API: ids of the posts of the signed-in user
    calls,          \* calls of the views that are outstanding, each with the
                    \* values its handler closed over
    event           \* history: the view handler that ran in the latest step

sessVars == <<localStorage, user, loading, href, req, last, loggedOut>>
pdVars == <<postDetail, serverComments>>
epVars == <<editPost>>
routeVars == <<location, loginForm>>
listVars == <<home, search>>
cardVars == <<postCard>>
dashVars == <<dashboard, serverPosts>>
moreVars == <<cardVars, dashVars>>
viewVars == <<pdVars, epVars, routeVars, listVars, moreVars, calls, event>>
\* what the handlers of PostDetail leave alone
pdRest == <<sessVars, epVars, routeVars, listVars, moreVars>>
vars == <<sessVars, viewVars>>

\* ------------------------------------------------------- pure functions
\* JSON.stringify(user) as login/register persist it
JSONStringify(u) == IF u = "alice" THEN "{id:1,username:alice}"
                    ELSE IF u = "bob" THEN "{id:2,username:bob}"
                    ELSE "undefined"

\* JSON.parse(userData); "throw" stands for the SyntaxError it raises
\* (the JSON text null parses to null without raising)
JSONParse(s) == IF s = "{id:1,username:alice}" THEN "alice"
                ELSE IF s = "{id:2,username:bob}" THEN "bob"
                ELSE IF s = "null" THEN None
                ELSE "throw"

\* values of the 'user' key that are not a serialized user: a truncated
\* write, and JSON that is no user object
CorruptData == {"{id:1,usern", "null"}

\* what the three keys can hold when the application starts
PersistedStates ==
    [access_token : Tokens \cup {None},
     refresh_token : RTokens \cup {None},
     user : {None} \cup {JSONStringify(u) : u \in Users} \cup CorruptData]

\* localStorage with every key removed
EmptyStorage == [access_token |-> None, refresh_token |-> None, user |-> None]

\* a call slot nobody uses
NoResp == [status |-> -1]
IdleReq == [pc |-> "idle", kind |-> "api", bearer |-> None, replayed |-> FALSE,
            error |-> NoResp]
NoResult == [kind |-> None, outcome |-> None, resp |-> NoResp]

\* responses of the remote API to a call made through `api`
\*   login / register answer 2xx with {user, access, refresh}; the payload of
\*   the other endpoints plays no part in the session
OkResponses(kind) ==
    IF kind = "api" THEN {[status |-> 200]}
    ELSE [status : {200}, user : Users, access : Tokens, refresh : RTokens]
\*   401 with a {detail: ...} body, 400 with a field -> messages body,
\*   status 0: no response at all (network error, timeout)
ErrResponses == {[status |-> 401, data |-> "detail"],
                 [status |-> 400, data |-> "fields"],
                 [status |-> 0, data |-> None]}

\* the 401 error the interceptor holds while it refreshes
Error401 == [status |-> 401, data |-> "detail"]

\* variant: an interceptor that never attaches the stored credential
RequestInterceptor_NoBearer(ls) == None

\* request interceptor: the Authorization header it puts on a config
RequestInterceptor(ls) ==
    IF ls.access_token # None THEN ls.access_token ELSE None

\* variant: an error branch that refreshes on any error, not only on 401
ShouldRefresh_AnyError(resp, ls) == ls.refresh_token # None

\* variant: the 401 branch without the `if (refreshToken)` test
ShouldRefresh_NoTokenTest(resp, ls) == resp.status = 401

\* response interceptor, error branch: does this error start a token refresh?
ShouldRefresh(resp, ls) ==
    resp.status = 401 /\ ls.refresh_token # None

\* variant: login that forgets to persist the refresh credential
StoreSession_NoRefresh(ls, data) ==
    [ls EXCEPT !.access_token = data.access,
               !.user = JSONStringify(data.user)]

\* login / register success: the three setItem calls
StoreSession(ls, data) ==
    [ls EXCEPT !.access_token = data.access,
               !.refresh_token = data.refresh,
               !.user = JSONStringify(data.user)]

\* Authorization header of the replay: line 57 sets the new token, then the
\* request interceptor of api.request overwrites it with the stored one
ReplayBearer(ls, a) ==
    IF RequestInterceptor(ls) # None THEN RequestInterceptor(ls) ELSE a

\* variant: a refresh call made with api.post, whose request interceptor
\* attaches the stored access credential
RefreshBearer_ViaApi == RequestInterceptor(localStorage)

\* Authorization header of the refresh call: axios.post, not api.post, so no
\* interceptor runs and no header is set
RefreshBearer == None

\* variant: a refresh that rewrites the session and loses the user record
StoreAccess_DropsUser(ls, a) == [ls EXCEPT !.access_token = a, !.user = None]

\* refresh success: localStorage.setItem('access_token', response.data.access)
StoreAccess(ls, a) == [ls EXCEPT !.access_token = a]

\* refresh failure: the two removeItem calls of the catch block
ClearOnRefreshFailure(ls) ==
    [ls EXCEPT !.access_token = None, !.refresh_token = None]

\* logout(): the three removeItem calls
ClearSession(ls) ==
    [ls EXCEPT !.access_token = None, !.refresh_token = None, !.user = None]

\* a settled call: the response (or error) that settled it and what its
\* caller received
Settled(k, o, resp) == [kind |-> k, outcome |-> o, resp |-> resp]

\* what the caller of a rejected call gets
\*   api      : the rejected axios error
\*   login    : {success:false, error: <string>}
\*   register : {success:false, error: data || statusText || 'Registration failed'}
Rejected(kind, resp) ==
    IF kind = "api" THEN
        (IF resp.status = 401 THEN "rejected401" ELSE "rejected")
    ELSE IF kind = "login" THEN "failString"
    ELSE IF resp.data # None THEN "failObject" ELSE "failString"

\* --------------------------------------------------------------- views
\* posts the remote API serves, and the id of each one's author
PostIds == {1, 2}
AuthorOf(p) == IF p = 1 THEN "alice" ELSE "bob"

\* characters and the texts a user can type
Chars == {" ", "a"}
Texts == UNION {[1..n -> Chars] : n \in 0..MaxTextLen}

\* String.prototype.trim
RECURSIVE TrimStart(_)
TrimStart(t) == IF t # <<>> /\ Head(t) = " " THEN TrimStart(Tail(t)) ELSE t
RECURSIVE TrimEnd(_)
TrimEnd(t) == IF t # <<>> /\ t[Len(t)] = " "
              THEN TrimEnd(SubSeq(t, 1, Len(t) - 1)) ELSE t
Trim(t) == TrimEnd(TrimStart(t))

\* useState(null) of PostDetail
NoPost == [id |-> 0, author |-> None, comments |-> <<>>]
\* response.data of GET /posts/{id}/ : the post with its nested comments
PostData(p, cs) == [id |-> p, author |-> AuthorOf(p), comments |-> cs[p]]

\* an outstanding call of a view: the endpoint, the id it was made for and
\* what the handler that awaits it closed over
Call(op, p, content, post) ==
    [op |-> op, id |-> p, content |-> content, post |-> post]

\* comments the server holds
NumComments(cs) == Len(cs[1]) + Len(cs[2])

\* PostDetail, first render on route /posts/p with the mount effect run
PostDetailMounted(p) ==
    /\ postDetail = [id |-> p, post |-> NoPost, loading |-> TRUE, error |-> FALSE,
                     commentText |-> <<>>, commentLoading |-> FALSE]
    /\ calls = {Call("getById", p, <<>>, NoPost)}

\* EditPost is not mounted
EditPostIdle ==
    editPost = [id |-> 0, post |-> NoPost, loading |-> TRUE, error |-> FALSE,
                submitLoading |-> FALSE]

\* the router shows the landing page, Login is not mounted
RouterIdle ==
    /\ location = [pathname |-> "/", from |-> None]
    /\ loginForm = [loading |-> FALSE, error |-> FALSE]

\* useState({}) of the pagination of Home and of Search
NoPagination == [count |-> 0, next |-> FALSE, previous |-> FALSE, current |-> 0]
NoSearchPagination ==
    [count |-> 0, totalPages |-> 0, currentPage |-> 0,
     hasNext |-> FALSE, hasPrevious |-> FALSE]

\* useState values of a fresh Home and of a fresh Search
HomeFresh == [posts |-> <<>>, loading |-> TRUE, error |-> FALSE,
              pagination |-> NoPagination]
SearchFresh == [query |-> None, results |-> <<>>, loading |-> FALSE,
                error |-> FALSE, pagination |-> NoSearchPagination]

\* Home and Search are not mounted
HomeIdle == home = HomeFresh
SearchIdle == search = SearchFresh
ListsIdle == HomeIdle /\ SearchIdle

\* PostDetail is not mounted, the server holds no comment
PostDetailIdle ==
    /\ postDetail = [id |-> 0, post |-> NoPost, loading |-> TRUE, error |-> FALSE,
                     commentText |-> <<>>, commentLoading |-> FALSE]
    /\ serverComments = [p \in PostIds |-> <<>>]

\* no PostCard is rendered
NoCard == [id |-> 0, title |-> None, username |-> None, content |-> <<>>]
NoRender == [title |-> None, username |-> None, shown |-> <<>>,
             readMore |-> None]
CardIdle == postCard = [post |-> NoCard, view |-> NoRender]

\* Dashboard is not mounted
DashboardFresh == [posts |-> <<>>, loading |-> TRUE, error |-> None,
                   deleteLoading |-> 0, totalPosts |-> 0]
DashboardIdle == dashboard = DashboardFresh /\ serverPosts = {}

\* no view is mounted
ViewsIdle ==
    /\ PostDetailIdle
    /\ EditPostIdle
    /\ RouterIdle
    /\ ListsIdle
    /\ CardIdle /\ DashboardIdle
    /\ calls = {}
    /\ event = None

\* ----------------------------------------------------------------- Init
Init ==
    /\ ViewsIdle
    /\ localStorage = EmptyStorage
    /\ user = None
    /\ loading = TRUE
    /\ href = "/"
    /\ req = [r \in Reqs |-> IdleReq]
    /\ last = NoResult
    /\ loggedOut = FALSE

\* -------------------------------------------------------------- actions
\* variant: a restore that trusts the 'user' key without looking at the token
AuthProviderMount_NoTokenTest ==
    /\ loading = TRUE
    /\ LET userData == localStorage.user
       IN IF userData # None
          THEN IF JSONParse(userData) # "throw"
               THEN /\ user' = JSONParse(userData)
                    /\ UNCHANGED localStorage
               ELSE /\ localStorage' = ClearSession(localStorage)
                    /\ UNCHANGED user
          ELSE UNCHANGED <<localStorage, user>>
    /\ loading' = FALSE
    /\ last' = NoResult
    /\ UNCHANGED <<href, req, loggedOut>>

\* variant: a restore that writes the session back and loses the refresh
\* credential on the way
AuthProviderMount_DropsRefresh ==
    /\ loading = TRUE
    /\ LET token == localStorage.access_token
           userData == localStorage.user
       IN IF token # None /\ userData # None
          THEN IF JSONParse(userData) # "throw"
               THEN /\ user' = JSONParse(userData)
                    /\ localStorage' = [localStorage EXCEPT !.refresh_token = None]
               ELSE /\ localStorage' = ClearSession(localStorage)
                    /\ UNCHANGED user
          ELSE UNCHANGED <<localStorage, user>>
    /\ loading' = FALSE
    /\ last' = NoResult
    /\ UNCHANGED <<href, req, loggedOut>>

\* AuthProvider useEffect(() => {...}, []) : restore the session on app start
AuthProviderMount ==
    /\ loading = TRUE
    /\ LET token == localStorage.access_token
           userData == localStorage.user
       IN IF token # None /\ userData # None
          THEN IF JSONParse(userData) # "throw"
               THEN /\ user' = JSONParse(userData)
                    /\ UNCHANGED localStorage
               ELSE /\ localStorage' = ClearSession(localStorage)
                    /\ UNCHANGED user
          ELSE UNCHANGED <<localStorage, user>>
    /\ loading' = FALSE
    /\ last' = NoResult
    /\ UNCHANGED <<href, req, loggedOut>>

\* the browser (re)loads the page: React state and outstanding calls are gone
Reload ==
    /\ user' = None
    /\ loading' = TRUE
    /\ req' = [r \in Reqs |-> IdleReq]
    /\ last' = NoResult
    /\ UNCHANGED <<localStorage, href, loggedOut>>

\* a caller issues a call through `api` (postsAPI.*, authAPI.login, ...)
Issue(r, k) ==
    /\ loading = FALSE
    /\ req[r].pc = "idle"
    /\ req' = [req EXCEPT ![r] = [pc |-> "sent", kind |-> k,
                                  bearer |-> RequestInterceptor(localStorage),
                                  replayed |-> FALSE, error |-> NoResp]]
    /\ last' = NoResult
    /\ UNCHANGED <<localStorage, user, loading, href, loggedOut>>

\* a 2xx response: (response) => response, then the caller's continuation
RespondOk(r, resp) ==
    /\ req[r].pc = "sent"
    /\ resp \in OkResponses(req[r].kind)
    /\ IF req[r].kind = "api"
       THEN /\ last' = Settled("api", "resolved", resp)
            /\ UNCHANGED <<localStorage, user, loggedOut>>
       ELSE /\ localStorage' = StoreSession(localStorage, resp)
            /\ user' = resp.user
            /\ loggedOut' = FALSE
            /\ last' = Settled(req[r].kind, "success", resp)
    /\ req' = [req EXCEPT ![r] = IdleReq]
    /\ UNCHANGED <<loading, href>>

\* an error response: the async (error) => {...} handler up to its first await
RespondError(r, resp) ==
    /\ req[r].pc = "sent"
    /\ IF ShouldRefresh(resp, localStorage)
       THEN /\ req' = [req EXCEPT ![r].pc = "refreshing",
                                  ![r].bearer = RefreshBearer,
                                  ![r].error = resp]
            /\ last' = NoResult
       ELSE /\ req' = [req EXCEPT ![r] = IdleReq]
            /\ last' = Settled(req[r].kind, Rejected(req[r].kind, resp), resp)
    /\ UNCHANGED <<localStorage, user, loading, href, loggedOut>>

\* the refresh call resolved: store the token, replay through api.request
RefreshOk(r, a) ==
    /\ req[r].pc = "refreshing"
    /\ localStorage' = StoreAccess(localStorage, a)
    /\ req' = [req EXCEPT ![r].pc = "sent",
                          ![r].bearer = ReplayBearer(localStorage', a),
                          ![r].replayed = TRUE,
                          ![r].error = NoResp]
    /\ last' = NoResult
    /\ UNCHANGED <<user, loading, href, loggedOut>>

\* the refresh call rejected: catch (refreshError), then Promise.reject(error)
RefreshFail(r) ==
    /\ req[r].pc = "refreshing"
    /\ localStorage' = ClearOnRefreshFailure(localStorage)
    /\ href' = "/login"
    /\ req' = [req EXCEPT ![r] = IdleReq]
    /\ last' = Settled(req[r].kind, Rejected(req[r].kind, req[r].error),
                       req[r].error)
    /\ UNCHANGED <<user, loading, loggedOut>>

\* Navigation.handleLogout -> logout()
Logout ==
    /\ loading = FALSE
    /\ user # None
    /\ localStorage' = ClearSession(localStorage)
    /\ user' = None
    /\ loggedOut' = TRUE
    /\ last' = NoResult
    /\ UNCHANGED <<loading, href, req>>

Next ==
    \/ AuthProviderMount /\ UNCHANGED viewVars
    \/ Reload /\ UNCHANGED viewVars
    \/ \E r \in Reqs, k \in Kinds : Issue(r, k) /\ UNCHANGED viewVars
    \/ \E r \in Reqs, resp \in OkResponses("api") \cup OkResponses("login") :
          RespondOk(r, resp) /\ UNCHANGED viewVars
    \/ \E r \in Reqs, resp \in ErrResponses :
          RespondError(r, resp) /\ UNCHANGED viewVars
    \/ \E r \in Reqs, a \in Tokens : RefreshOk(r, a) /\ UNCHANGED viewVars
    \/ \E r \in Reqs : RefreshFail(r) /\ UNCHANGED viewVars
    \/ Logout /\ UNCHANGED viewVars

Spec == Init /\ [][Next]_vars

\* application start on any persisted state, corrupt ones included
InitLoad ==
    /\ ViewsIdle
    /\ localStorage \in PersistedStates
    /\ user = None
    /\ loading = TRUE
    /\ href = "/"
    /\ req = [r \in Reqs |-> IdleReq]
    /\ last = NoResult
    /\ loggedOut = FALSE

SpecLoad == InitLoad /\ [][Next]_vars

\* ---------------------------------------------------------- PostDetail
\* the comment form is rendered: the post is loaded and the reader is signed in
FormShown == ~postDetail.loading /\ postDetail.post # NoPost /\ user # None

\* variant: an early return that tests the text without trimming it
IsBlank_Untrimmed(t) == t = <<>>
\* handleCommentSubmit's early return: a text that is blank after trim
IsBlank(t) == Trim(t) = <<>>

\* the route parameter changes: the [id] effect runs fetchPost up to its await
PDNavigate(p) ==
    /\ p # postDetail.id
    /\ postDetail' = [postDetail EXCEPT !.id = p, !.loading = TRUE]
    /\ calls' = calls \cup {Call("getById", p, <<>>, NoPost)}
    /\ event' = "navigate"
    /\ UNCHANGED <<serverComments, pdRest>>

\* postsAPI.getById resolves: setPost(response.data), finally setLoading(false)
PDFetchOk(c) ==
    /\ c \in calls /\ c.op = "getById"
    /\ postDetail' = [postDetail EXCEPT !.post = PostData(c.id, serverComments),
                                        !.loading = FALSE]
    /\ calls' = calls \ {c}
    /\ event' = "getById"
    /\ UNCHANGED <<serverComments, pdRest>>

\* postsAPI.getById rejects: setError, finally setLoading(false)
PDFetchFail(c) ==
    /\ c \in calls /\ c.op = "getById"
    /\ postDetail' = [postDetail EXCEPT !.error = TRUE, !.loading = FALSE]
    /\ calls' = calls \ {c}
    /\ event' = "getById"
    /\ UNCHANGED <<serverComments, pdRest>>

\* onChange of the textarea
PDType(t) ==
    /\ FormShown
    /\ t # postDetail.commentText
    /\ postDetail' = [postDetail EXCEPT !.commentText = t]
    /\ event' = "type"
    /\ UNCHANGED <<serverComments, calls, pdRest>>

\* handleCommentSubmit up to its await. The submit event is taken for every
\* text, so that the handler's own test decides; the form offers no second
\* submit while commentLoading.
PDSubmit ==
    /\ FormShown
    /\ ~postDetail.commentLoading
    /\ event' = "submit"
    /\ IF IsBlank(postDetail.commentText)
       THEN UNCHANGED <<postDetail, calls>>
       ELSE /\ postDetail' = [postDetail EXCEPT !.commentLoading = TRUE]
            /\ calls' = calls \cup {Call("create", postDetail.id,
                                         postDetail.commentText, postDetail.post)}
    /\ UNCHANGED <<serverComments, pdRest>>

\* id the server gives the next comment
NewCommentId == NumComments(serverComments) + 1

\* commentsAPI.create resolves: the server stores the comment; the handler
\* continues with the post it closed over
PDCreateOk(c) ==
    /\ c \in calls /\ c.op = "create"
    /\ NumComments(serverComments) < MaxComments
    /\ serverComments' = [serverComments EXCEPT
                             ![c.id] = Append(@, NewCommentId)]
    /\ postDetail' = [postDetail EXCEPT
                         !.post = [c.post EXCEPT
                                      !.comments = Append(@, NewCommentId)],
                         !.commentText = <<>>,
                         !.commentLoading = FALSE]
    /\ calls' = calls \ {c}
    /\ event' = "create"
    /\ UNCHANGED pdRest

\* commentsAPI.create rejects: setError, finally setCommentLoading(false)
PDCreateFail(c) ==
    /\ c \in calls /\ c.op = "create"
    /\ postDetail' = [postDetail EXCEPT !.error = TRUE, !.commentLoading = FALSE]
    /\ calls' = calls \ {c}
    /\ event' = "create"
    /\ UNCHANGED <<serverComments, pdRest>>

\* another client adds a comment to post p
OtherComment(p) ==
    /\ NumComments(serverComments) < MaxComments
    /\ serverComments' = [serverComments EXCEPT ![p] = Append(@, NewCommentId)]
    /\ event' = "other"
    /\ UNCHANGED <<postDetail, calls, pdRest>>

\* who looks at a view: the author of post 1, or an anonymous visitor
Readers == {"alice", None}

\* the session of a view: the provider has finished loading and the user is
\* one of who
SessionSettled(who) ==
    /\ localStorage = EmptyStorage
    /\ user \in who
    /\ loading = FALSE
    /\ href = "/"
    /\ req = [r \in Reqs |-> IdleReq]
    /\ last = NoResult
    /\ loggedOut = FALSE

\* a reader opens /posts/p
InitPostDetail ==
    /\ SessionSettled(Readers)
    /\ EditPostIdle /\ RouterIdle /\ ListsIdle
    /\ CardIdle /\ DashboardIdle
    /\ serverComments = [p \in PostIds |-> <<>>]
    /\ event = None
    /\ \E p \in PostIds : PostDetailMounted(p)

NextPostDetail ==
    \/ \E p \in PostIds : PDNavigate(p)
    \/ \E c \in calls : PDFetchOk(c)
    \/ \E c \in calls : PDFetchFail(c)
    \/ \E t \in Texts : PDType(t)
    \/ PDSubmit
    \/ \E c \in calls : PDCreateOk(c)
    \/ \E c \in calls : PDCreateFail(c)
    \/ \E p \in PostIds : OtherComment(p)

SpecPostDetail == InitPostDetail /\ [][NextPostDetail]_vars

\* ------------------------------------------------------------ EditPost
\* what the handlers of EditPost leave alone
epRest == <<sessVars, pdVars, routeVars, listVars, moreVars>>

\* render of EditPost reaches PostForm: not loading, and not (error && !post)
EditFormShown ==
    ~editPost.loading /\ ~(editPost.error /\ editPost.post = NoPost)

\* the route parameter changes: the [id] effect runs fetchPost up to its await
EPNavigate(p) ==
    /\ p # editPost.id
    /\ editPost' = [editPost EXCEPT !.id = p, !.loading = TRUE]
    /\ calls' = calls \cup {Call("getById", p, <<>>, NoPost)}
    /\ event' = "navigate"
    /\ UNCHANGED epRest

\* variant: a fetchPost without the finally block, whose early return leaves
\* the loading flag set
EPFetchOk_ReturnKeepsLoading(c) ==
    /\ c \in calls /\ c.op = "getById"
    /\ editPost' = IF PostData(c.id, serverComments).author # user
                   THEN [editPost EXCEPT !.error = TRUE]
                   ELSE [editPost EXCEPT
                            !.post = PostData(c.id, serverComments),
                            !.loading = FALSE]
    /\ calls' = calls \ {c}
    /\ event' = "getById"
    /\ UNCHANGED epRest

\* postsAPI.getById resolves: the ownership test, then setPost; finally
\* setLoading(false)
EPFetchOk(c) ==
    /\ c \in calls /\ c.op = "getById"
    /\ editPost' = IF PostData(c.id, serverComments).author # user
                   THEN [editPost EXCEPT !.error = TRUE, !.loading = FALSE]
                   ELSE [editPost EXCEPT
                            !.post = PostData(c.id, serverComments),
                            !.loading = FALSE]
    /\ calls' = calls \ {c}
    /\ event' = "getById"
    /\ UNCHANGED epRest

\* postsAPI.getById rejects: setError, finally setLoading(false)
EPFetchFail(c) ==
    /\ c \in calls /\ c.op = "getById"
    /\ editPost' = [editPost EXCEPT !.error = TRUE, !.loading = FALSE]
    /\ calls' = calls \ {c}
    /\ event' = "getById"
    /\ UNCHANGED epRest

\* PostForm submits: handleSubmit up to its await, for the route id
EPSubmit ==
    /\ EditFormShown
    /\ ~editPost.submitLoading
    /\ editPost' = [editPost EXCEPT !.submitLoading = TRUE, !.error = FALSE]
    /\ calls' = calls \cup {Call("update", editPost.id, <<>>, editPost.post)}
    /\ event' = "submit"
    /\ UNCHANGED epRest

\* postsAPI.update resolves (the remote API accepts the author only)
EPUpdateOk(c) ==
    /\ c \in calls /\ c.op = "update"
    /\ AuthorOf(c.id) = user
    /\ editPost' = [editPost EXCEPT !.submitLoading = FALSE]
    /\ calls' = calls \ {c}
    /\ event' = "update"
    /\ UNCHANGED epRest

\* postsAPI.update rejects: setError, finally setSubmitLoading(false)
EPUpdateFail(c) ==
    /\ c \in calls /\ c.op = "update"
    /\ editPost' = [editPost EXCEPT !.error = TRUE, !.submitLoading = FALSE]
    /\ calls' = calls \ {c}
    /\ event' = "update"
    /\ UNCHANGED epRest

\* a signed-in user opens /edit-post/p
InitEditPost ==
    /\ SessionSettled(Users)
    /\ PostDetailIdle
    /\ RouterIdle /\ ListsIdle
    /\ CardIdle /\ DashboardIdle
    /\ event = None
    /\ \E p \in PostIds :
          /\ editPost = [id |-> p, post |-> NoPost, loading |-> TRUE,
                         error |-> FALSE, submitLoading |-> FALSE]
          /\ calls = {Call("getById", p, <<>>, NoPost)}

NextEditPost ==
    \/ \E p \in PostIds : EPNavigate(p)
    \/ \E c \in calls : EPFetchOk(c)
    \/ \E c \in calls : EPFetchFail(c)
    \/ EPSubmit
    \/ \E c \in calls : EPUpdateOk(c)
    \/ \E c \in calls : EPUpdateFail(c)

SpecEditPost == InitEditPost /\ [][NextEditPost]_vars

\* -------------------------------------------- ProtectedRoute and Login
\* what the router, ProtectedRoute and Login leave alone
routeRest == <<pdVars, epVars, listVars, moreVars>>

\* pathnames of App's routes, and those wrapped in ProtectedRoute
Paths == {"/", "/login", "/dashboard", "/create-post"}
ProtectedPaths == {"/dashboard", "/create-post"}

\* variant: a Login that always continues to the dashboard
From_AlwaysDashboard(loc) == "/dashboard"
\* Login: const from = location.state?.from?.pathname || '/dashboard'
From(loc) == IF loc.from # None THEN loc.from ELSE "/dashboard"

\* Login's outstanding login(formData): the call slot it runs in, the location
\* its handler closed over, and whether that Login is still mounted
LoginCall(r, loc, att) ==
    [op |-> "login", slot |-> r, location |-> loc, attached |-> att]
CallOf(r) == CHOOSE c \in calls : c.slot = r
\* the Login instances of the outstanding calls unmount
Detached(cs) == {[c EXCEPT !.attached = FALSE] : c \in cs}
\* useState values of a fresh Login
LoginIdle == [loading |-> FALSE, error |-> FALSE]

\* between window.location.href = '/login' and the page load nothing else runs
PageAlive == event # "refreshFail"

\* variant: a ProtectedRoute that does not wait for the session to load
ProtectedRoute_NoLoadingTest(ld, isAuthenticated) ==
    IF ~isAuthenticated THEN "redirect" ELSE "children"
\* what ProtectedRoute returns: the spinner, <Navigate to="/login" ...> or
\* its children
ProtectedRoute(ld, isAuthenticated) ==
    IF ld THEN "spinner"
    ELSE IF ~isAuthenticated THEN "redirect"
    ELSE "children"

\* the location after the route of p has rendered with session (ld, u):
\* <Navigate to="/login" state={{ from: location }} replace /> is followed
Routed(p, ld, u) ==
    IF p \in ProtectedPaths /\ ProtectedRoute(ld, u # None) = "redirect"
    THEN [pathname |-> "/login", from |-> p]
    ELSE [pathname |-> p, from |-> None]

\* what the element of the current route shows
Rendered ==
    IF location.pathname \in ProtectedPaths
    THEN ProtectedRoute(loading, user # None)
    ELSE "public"

\* the user follows a link to p
Visit(p) ==
    /\ PageAlive
    /\ loading = FALSE
    /\ p # location.pathname
    /\ location' = Routed(p, loading, user)
    /\ loginForm' = LoginIdle
    /\ calls' = Detached(calls)
    /\ event' = p
    /\ last' = NoResult
    /\ UNCHANGED <<localStorage, user, loading, href, req, loggedOut, routeRest>>

\* Login.handleSubmit up to its await: login(formData) -> authAPI.login
LoginSubmit(r) ==
    /\ PageAlive
    /\ location.pathname = "/login"
    /\ ~loginForm.loading
    /\ Issue(r, "login")
    /\ loginForm' = [loading |-> TRUE, error |-> FALSE]
    /\ calls' = calls \cup {LoginCall(r, location, TRUE)}
    /\ event' = "submit"
    /\ UNCHANGED <<location, routeRest>>

\* login resolved with success: navigate(from, { replace: true })
LoginResolved(r, resp) ==
    /\ PageAlive
    /\ RespondOk(r, resp)
    /\ location' = [pathname |-> From(CallOf(r).location), from |-> None]
    /\ loginForm' = LoginIdle
    /\ calls' = Detached(calls \ {CallOf(r)})
    /\ event' = "login"
    /\ UNCHANGED routeRest

\* what Login does with { success: false }: setError, setLoading(false)
LoginFailed(c) ==
    /\ loginForm' = IF c.attached THEN [loading |-> FALSE, error |-> TRUE]
                    ELSE loginForm
    /\ calls' = calls \ {c}
    /\ UNCHANGED location

\* the login call gets an error response: the interceptor starts a refresh,
\* or the error reaches login's catch
LoginError(r, resp) ==
    /\ PageAlive
    /\ RespondError(r, resp)
    /\ IF ShouldRefresh(resp, localStorage)
       THEN UNCHANGED <<location, loginForm, calls>>
       ELSE LoginFailed(CallOf(r))
    /\ event' = "login"
    /\ UNCHANGED routeRest

\* the interceptor's refresh resolved: the login call is replayed
LoginRefreshOk(r, a) ==
    /\ PageAlive
    /\ RefreshOk(r, a)
    /\ event' = "refresh"
    /\ UNCHANGED <<location, loginForm, calls, routeRest>>

\* the interceptor's refresh rejected: window.location.href = '/login', and
\* the 401 reaches login's catch
LoginRefreshFail(r) ==
    /\ PageAlive
    /\ RefreshFail(r)
    /\ LoginFailed(CallOf(r))
    /\ event' = "refreshFail"
    /\ UNCHANGED routeRest

\* the page load that the assignment to window.location.href starts
PageLoad ==
    /\ ~PageAlive
    /\ Reload
    /\ location' = [pathname |-> href, from |-> None]
    /\ loginForm' = LoginIdle
    /\ calls' = {}
    /\ event' = "load"
    /\ UNCHANGED routeRest

\* the user opens the URL of p in the browser: the page loads there
OpenUrl(p) ==
    /\ PageAlive
    /\ Reload
    /\ location' = Routed(p, loading', user')
    /\ loginForm' = LoginIdle
    /\ calls' = {}
    /\ event' = "open"
    /\ UNCHANGED routeRest

\* AuthProvider's mount effect after the page load; the route renders again
\* with the loaded session
RouteMount ==
    /\ AuthProviderMount
    /\ location' = IF location.pathname \in ProtectedPaths
                   THEN Routed(location.pathname, loading', user')
                   ELSE location
    /\ event' = "mount"
    /\ UNCHANGED <<loginForm, calls, routeRest>>

\* Navigation.handleLogout: logout(); navigate('/')
RouteLogout ==
    /\ PageAlive
    /\ Logout
    /\ location' = [pathname |-> "/", from |-> None]
    /\ loginForm' = LoginIdle
    /\ calls' = Detached(calls)
    /\ event' = "logout"
    /\ UNCHANGED routeRest

\* an anonymous visitor is on the landing page
InitRoute ==
    /\ SessionSettled({None})
    /\ RouterIdle
    /\ EditPostIdle /\ ListsIdle
    /\ CardIdle /\ DashboardIdle
    /\ PostDetailIdle
    /\ calls = {}
    /\ event = None

NextRoute ==
    \/ \E p \in Paths : Visit(p)
    \/ \E r \in Reqs : LoginSubmit(r)
    \/ \E r \in Reqs, resp \in OkResponses("login") : LoginResolved(r, resp)
    \/ \E r \in Reqs, resp \in ErrResponses : LoginError(r, resp)
    \/ \E r \in Reqs, a \in Tokens : LoginRefreshOk(r, a)
    \/ \E r \in Reqs : LoginRefreshFail(r)
    \/ PageLoad
    \/ \E p \in Paths : OpenUrl(p)
    \/ RouteMount
    \/ RouteLogout

SpecRoute == InitRoute /\ [][NextRoute]_vars

\* the browser opens the application at the URL of p, with whatever session
\* an earlier visit left in localStorage
InitGate ==
    /\ localStorage \in PersistedStates
    /\ user = None
    /\ loading = TRUE
    /\ href = "/"
    /\ req = [r \in Reqs |-> IdleReq]
    /\ last = NoResult
    /\ loggedOut = FALSE
    /\ \E p \in Paths : location = Routed(p, loading, user)
    /\ loginForm = LoginIdle
    /\ EditPostIdle /\ ListsIdle
    /\ CardIdle /\ DashboardIdle
    /\ PostDetailIdle
    /\ calls = {}
    /\ event = None

\* navigation without any remote call
NextGate ==
    \/ \E p \in Paths : Visit(p)
    \/ \E p \in Paths : OpenUrl(p)
    \/ RouteMount
    \/ RouteLogout

SpecGate == InitGate /\ [][NextGate]_vars

\* ------------------------------------------------------- Home and Search
\* what the handlers of Home and Search leave alone
listRest == <<sessVars, pdVars, epVars, routeVars, moreVars>>

\* page size of the remote API, as Home assumes it in `pagination.count > 10`
PageSize == 10
\* search texts
Queries == {"a", "b"}

\* the remote API's pagination of n posts
TotalPages(n) == IF n = 0 THEN 1 ELSE (n + PageSize - 1) \div PageSize
ValidPage(n, p) == p >= 1 /\ p <= TotalPages(n)
PageLen(n, p) == IF n - (p - 1) * PageSize < PageSize
                 THEN n - (p - 1) * PageSize ELSE PageSize
\* the posts of page p, each named by its position in the whole list
PageItems(n, p) == [i \in 1..PageLen(n, p) |-> (p - 1) * PageSize + i]
\* response.data of GET /posts/?page=p
ListResponse(n, p) ==
    [count |-> n, results |-> PageItems(n, p),
     next |-> p < TotalPages(n), previous |-> p > 1]
\* response.data of GET /search/?q=&page=p
SearchResponse(n, p) ==
    [count |-> n, results |-> PageItems(n, p), total_pages |-> TotalPages(n),
     current_page |-> p, has_next |-> p < TotalPages(n), has_previous |-> p > 1]

\* an outstanding postsAPI.getAll(page) or searchAPI.searchPosts(query, page)
ListCall(op, q, p) == [op |-> op, query |-> q, page |-> p]

\* Home after its first render and mount effect
HomeMounted ==
    /\ HomeIdle
    /\ calls = {ListCall("getAll", None, 1)}

\* Home's page controls are rendered
HomeControlsShown ==
    ~home.loading /\ home.posts # <<>> /\ home.pagination.count > PageSize
\* variant: a Previous button that is offered on every page
HomePreviousShown_Always == HomeControlsShown
HomePreviousShown == HomeControlsShown /\ home.pagination.previous
HomeNextShown == HomeControlsShown /\ home.pagination.next

\* handlePageChange(page) -> fetchPosts(page) up to its await
HomePageChange(page, name) ==
    /\ home' = [home EXCEPT !.loading = TRUE]
    /\ calls' = calls \cup {ListCall("getAll", None, page)}
    /\ event' = name
    /\ UNCHANGED <<search, listRest>>

HomePrevious ==
    HomePreviousShown /\ HomePageChange(home.pagination.current - 1, "previous")
HomeNext ==
    HomeNextShown /\ HomePageChange(home.pagination.current + 1, "next")

\* postsAPI.getAll resolves while the list holds n posts
HomeFetchOk(c, n) ==
    /\ c \in calls /\ c.op = "getAll"
    /\ ValidPage(n, c.page)
    /\ LET data == ListResponse(n, c.page)
       IN home' = [home EXCEPT
                      !.posts = data.results,
                      !.pagination = [count |-> data.count, next |-> data.next,
                                      previous |-> data.previous,
                                      current |-> c.page],
                      !.loading = FALSE]
    /\ calls' = calls \ {c}
    /\ event' = "getAll"
    /\ UNCHANGED <<search, listRest>>

\* postsAPI.getAll rejects (no such page, network error)
HomeFetchFail(c) ==
    /\ c \in calls /\ c.op = "getAll"
    /\ home' = [home EXCEPT !.error = TRUE, !.loading = FALSE]
    /\ calls' = calls \ {c}
    /\ event' = "getAll"
    /\ UNCHANGED <<search, listRest>>

\* performSearch(searchQuery, page) up to its await
PerformSearch(q, page, name) ==
    /\ search' = [search EXCEPT !.query = q, !.loading = TRUE, !.error = FALSE]
    /\ calls' = calls \cup {ListCall("searchPosts", q, page)}
    /\ event' = name
    /\ UNCHANGED <<home, listRest>>

\* handleSearch(newQuery): the q parameter changes and the [query] effect runs
SearchSubmit(q) ==
    /\ location.pathname = "/search"
    /\ q # search.query
    /\ PerformSearch(q, 1, "search")

\* Search's page controls are rendered
SearchControlsShown ==
    /\ search.query # None /\ ~search.loading /\ search.results # <<>>
    /\ search.pagination.totalPages > 1

SearchPrevious ==
    /\ SearchControlsShown /\ search.pagination.hasPrevious
    /\ PerformSearch(search.query, search.pagination.currentPage - 1, "previous")
SearchNext ==
    /\ SearchControlsShown /\ search.pagination.hasNext
    /\ PerformSearch(search.query, search.pagination.currentPage + 1, "next")

\* searchAPI.searchPosts resolves while n posts match
SearchFetchOk(c, n) ==
    /\ c \in calls /\ c.op = "searchPosts"
    /\ ValidPage(n, c.page)
    /\ LET data == SearchResponse(n, c.page)
       IN search' = [search EXCEPT
                        !.results = data.results,
                        !.pagination = [count |-> data.count,
                                        totalPages |-> data.total_pages,
                                        currentPage |-> data.current_page,
                                        hasNext |-> data.has_next,
                                        hasPrevious |-> data.has_previous],
                        !.loading = FALSE]
    /\ calls' = calls \ {c}
    /\ event' = "searchPosts"
    /\ UNCHANGED <<home, listRest>>

\* searchAPI.searchPosts rejects
SearchFetchFail(c) ==
    /\ c \in calls /\ c.op = "searchPosts"
    /\ search' = [search EXCEPT !.error = TRUE, !.loading = FALSE]
    /\ calls' = calls \ {c}
    /\ event' = "searchPosts"
    /\ UNCHANGED <<home, listRest>>

\* the user goes from Home to /search: Home unmounts, Search mounts
OpenSearch ==
    /\ location.pathname = "/"
    /\ location' = [pathname |-> "/search", from |-> None]
    /\ home' = HomeFresh
    /\ search' = SearchFresh
    /\ calls' = {}
    /\ event' = "open"
    /\ UNCHANGED <<loginForm, sessVars, pdVars, epVars, moreVars>>

\* the user goes from /search to Home: Search unmounts, Home mounts
OpenHome ==
    /\ location.pathname = "/search"
    /\ location' = [pathname |-> "/", from |-> None]
    /\ home' = HomeFresh
    /\ search' = SearchFresh
    /\ calls' = {ListCall("getAll", None, 1)}
    /\ event' = "open"
    /\ UNCHANGED <<loginForm, sessVars, pdVars, epVars, moreVars>>

\* numbers of posts the remote API may hold when it answers
PostCounts == 0..MaxPosts

\* a visitor opens the landing page
InitLists ==
    /\ SessionSettled(Readers)
    /\ RouterIdle
    /\ EditPostIdle
    /\ PostDetailIdle
    /\ SearchIdle
    /\ HomeMounted
    /\ CardIdle /\ DashboardIdle
    /\ event = None

NextLists ==
    \/ HomePrevious
    \/ HomeNext
    \/ \E c \in calls, n \in PostCounts : HomeFetchOk(c, n)
    \/ \E c \in calls : HomeFetchFail(c)
    \/ \E q \in Queries : SearchSubmit(q)
    \/ SearchPrevious
    \/ SearchNext
    \/ \E c \in calls, n \in PostCounts : SearchFetchOk(c, n)
    \/ \E c \in calls : SearchFetchFail(c)
    \/ OpenSearch
    \/ OpenHome

SpecLists == InitLists /\ [][NextLists]_vars

\* -------------------------------------------------------------- PostCard
\* number of characters PostCard shows before it cuts the content
PreviewLen == 200
Ellipsis == <<".", ".", ".">>

\* a content of n characters; k picks one of two texts
ContentOf(n, k) == [i \in 1..n |-> IF (i + k) % 2 = 0 THEN "a" ELSE "b"]
Contents == {ContentOf(n, k) : n \in 0..MaxContentLen, k \in {0, 1}}
\* the post props a card is rendered with
TitleOf == [p \in PostIds |-> IF p = 1 THEN "T1" ELSE "T2"]
CardPosts == {[id |-> p, title |-> TitleOf[p], username |-> AuthorOf(p),
               content |-> c] : p \in PostIds, c \in Contents}

\* variant: a card that also cuts a content of exactly PreviewLen characters
Preview_CutsAtLimit(c) ==
    IF Len(c) >= PreviewLen THEN SubSeq(c, 1, PreviewLen) \o Ellipsis ELSE c
\* post.content.length > 200 ? `${post.content.substring(0, 200)}...` : post.content
Preview(c) ==
    IF Len(c) > PreviewLen THEN SubSeq(c, 1, PreviewLen) \o Ellipsis ELSE c

\* what PostCard puts on the page for a post: the title link, the author's
\* username, the content paragraph (absent for an empty content) and the
\* target of the Read More link
RenderPostCard(post) ==
    [title |-> post.title,
     username |-> post.username,
     shown |-> IF post.content # <<>> THEN Preview(post.content) ELSE <<>>,
     readMore |-> post.id]

\* a list renders <PostCard post={p} />
RenderCard(p) ==
    /\ postCard' = [post |-> p, view |-> RenderPostCard(p)]
    /\ event' = "render"
    /\ UNCHANGED <<sessVars, pdVars, epVars, routeVars, listVars, dashVars, calls>>

InitCard ==
    /\ SessionSettled({None})
    /\ PostDetailIdle /\ EditPostIdle /\ RouterIdle /\ ListsIdle
    /\ DashboardIdle
    /\ CardIdle
    /\ calls = {}
    /\ event = None

NextCard == \E p \in CardPosts : RenderCard(p)

SpecCard == InitCard /\ [][NextCard]_vars

\* -------------------------------------------------------------- Dashboard
\* ids of the posts the signed-in user may own
UserPostIds == 1..NumUserPosts

RECURSIVE SortedSeq(_)
\* the posts of a set in the order the API lists them
SortedSeq(S) ==
    IF S = {} THEN <<>>
    ELSE LET m == CHOOSE x \in S : \A y \in S : x <= y
         IN <<m>> \o SortedSeq(S \ {m})

\* posts.filter(p => p.id !== post.id)
Without(ps, p) == SelectSeq(ps, LAMBDA x : x # p)
Displayed(ps) == {ps[i] : i \in 1..Len(ps)}

\* an outstanding Dashboard call with the posts its handler closed over
DashCall(op, p, ps) == [op |-> op, id |-> p, posts |-> ps]

\* Dashboard after its first render and mount effect
DashboardMounted ==
    /\ dashboard = DashboardFresh
    /\ calls = {DashCall("getUserPosts", 0, <<>>)}

\* the list with its Delete buttons is rendered
ListShown == ~dashboard.loading

\* postsAPI.getUserPosts resolves: setPosts, setStats, finally setLoading(false)
DashFetchOk(c) ==
    /\ c \in calls /\ c.op = "getUserPosts"
    /\ LET userPosts == SortedSeq(serverPosts)
       IN dashboard' = [dashboard EXCEPT !.posts = userPosts,
                                         !.totalPosts = Len(userPosts),
                                         !.loading = FALSE]
    /\ calls' = calls \ {c}
    /\ event' = "fetched"
    /\ UNCHANGED <<serverPosts, sessVars, pdVars, epVars, routeVars, listVars, cardVars>>

\* postsAPI.getUserPosts rejects: setError, finally setLoading(false)
DashFetchFail(c) ==
    /\ c \in calls /\ c.op = "getUserPosts"
    /\ dashboard' = [dashboard EXCEPT !.error = "fetch", !.loading = FALSE]
    /\ calls' = calls \ {c}
    /\ event' = "fetchFailed"
    /\ UNCHANGED <<serverPosts, sessVars, pdVars, epVars, routeVars, listVars, cardVars>>

\* handleDelete(post) up to its await: window.confirm answers, and only a
\* confirmed delete goes on to setDeleteLoading and postsAPI.delete. The
\* Delete button of a card stays enabled while another delete is outstanding.
HandleDelete(p, confirmed) ==
    /\ ListShown
    /\ p \in Displayed(dashboard.posts)
    /\ \A c \in calls : ~(c.op = "delete" /\ c.id = p)
    /\ IF confirmed
       THEN /\ dashboard' = [dashboard EXCEPT !.deleteLoading = p]
            /\ calls' = calls \cup {DashCall("delete", p, dashboard.posts)}
            /\ event' = "confirm"
       ELSE /\ UNCHANGED <<dashboard, calls>>
            /\ event' = "cancel"
    /\ UNCHANGED <<serverPosts, sessVars, pdVars, epVars, routeVars, listVars, cardVars>>

\* postsAPI.delete resolves: the server has removed the post; the handler
\* continues with the posts it closed over, and decrements the statistic
DashDeleteOk(c) ==
    /\ c \in calls /\ c.op = "delete"
    /\ serverPosts' = serverPosts \ {c.id}
    /\ dashboard' = [dashboard EXCEPT !.posts = Without(c.posts, c.id),
                                      !.totalPosts = @ - 1,
                                      !.deleteLoading = 0]
    /\ calls' = calls \ {c}
    /\ event' = "deleted"
    /\ UNCHANGED <<sessVars, pdVars, epVars, routeVars, listVars, cardVars>>

\* postsAPI.delete rejects: setError, finally setDeleteLoading(null)
DashDeleteFail(c) ==
    /\ c \in calls /\ c.op = "delete"
    /\ dashboard' = [dashboard EXCEPT !.error = "delete", !.deleteLoading = 0]
    /\ calls' = calls \ {c}
    /\ event' = "deleteFailed"
    /\ UNCHANGED <<serverPosts, sessVars, pdVars, epVars, routeVars, listVars, cardVars>>

\* a signed-in user opens /dashboard
InitDashboard ==
    /\ SessionSettled(Users)
    /\ PostDetailIdle /\ EditPostIdle /\ RouterIdle /\ ListsIdle /\ CardIdle
    /\ serverPosts \in SUBSET UserPostIds
    /\ DashboardMounted
    /\ event = None

NextDashboard ==
    \/ \E c \in calls : DashFetchOk(c)
    \/ \E c \in calls : DashFetchFail(c)
    \/ \E p \in UserPostIds, confirmed \in BOOLEAN : HandleDelete(p, confirmed)
    \/ \E c \in calls : DashDeleteOk(c)
    \/ \E c \in calls : DashDeleteFail(c)

SpecDashboard == InitDashboard /\ [][NextDashboard]_vars

\* ------------------------------------------------- views, with responses
\* Which view is on the page
OnPostDetail == postDetail.id # 0
OnEditPost == editPost.id # 0
OnDashboard == ~dashboard.loading \/ \E c \in calls : c.op = "getUserPosts"
OnLogin == location.pathname = "/login"

\* a visitor, or a user whose session is stored, is on /login
InitLogin ==
    /\ \E s \in Users \cup {None} :
          /\ user = s
          /\ localStorage =
                IF s = None THEN EmptyStorage
                ELSE [access_token |-> "A1", refresh_token |-> "R1",
                      user |-> JSONStringify(s)]
    /\ loading = FALSE
    /\ href = "/login"
    /\ req = [r \in Reqs |-> IdleReq]
    /\ last = NoResult
    /\ loggedOut = FALSE
    /\ location = [pathname |-> "/login", from |-> None]
    /\ loginForm = LoginIdle
    /\ PostDetailIdle /\ EditPostIdle /\ ListsIdle /\ CardIdle /\ DashboardIdle
    /\ calls = {}
    /\ event = None

\* the dashboard of a user with at most two posts
InitSmallDashboard == InitDashboard /\ serverPosts \subseteq {1, 2}

InitLive == InitPostDetail \/ InitEditPost \/ InitSmallDashboard \/ InitLogin

\* the responses, one action per loading flag
PDFetchResponse == \E c \in calls : PDFetchOk(c) \/ PDFetchFail(c)
PDCreateResponse == \E c \in calls : PDCreateOk(c) \/ PDCreateFail(c)
EPFetchResponse == \E c \in calls : EPFetchOk(c) \/ EPFetchFail(c)
EPUpdateResponse == \E c \in calls : EPUpdateOk(c) \/ EPUpdateFail(c)
DashFetchResponse == \E c \in calls : DashFetchOk(c) \/ DashFetchFail(c)
DashDeleteResponse == \E c \in calls : DashDeleteOk(c) \/ DashDeleteFail(c)
\* login(formData) settles: success, a failure that starts no refresh, or
\* the failure of the refresh
LoginSettles ==
    \E r \in Reqs :
       \/ \E resp \in OkResponses("login") : LoginResolved(r, resp)
       \/ \E resp \in ErrResponses :
             ~ShouldRefresh(resp, localStorage) /\ LoginError(r, resp)
       \/ LoginRefreshFail(r)
\* the login call's 401 is taken by the interceptor, and the refresh resolves
LoginRetries ==
    \E r \in Reqs :
       \/ \E resp \in ErrResponses :
             ShouldRefresh(resp, localStorage) /\ LoginError(r, resp)
       \/ \E a \in Tokens : LoginRefreshOk(r, a)

\* the handlers of the view on the page; the reader of PostDetail types one
\* text, and no other client comments
NextLive ==
    \/ OnPostDetail /\ \E p \in PostIds : PDNavigate(p)
    \/ OnPostDetail /\ PDFetchResponse
    \/ OnPostDetail /\ PDType(<<"a">>)
    \/ OnPostDetail /\ PDSubmit
    \/ OnPostDetail /\ PDCreateResponse
    \/ OnEditPost /\ \E p \in PostIds : EPNavigate(p)
    \/ OnEditPost /\ EPFetchResponse
    \/ OnEditPost /\ EPSubmit
    \/ OnEditPost /\ EPUpdateResponse
    \/ OnDashboard /\ DashFetchResponse
    \/ OnDashboard /\ \E p \in UserPostIds, confirmed \in BOOLEAN :
                         HandleDelete(p, confirmed)
    \/ OnDashboard /\ DashDeleteResponse
    \/ OnLogin /\ \E r \in Reqs : LoginSubmit(r)
    \/ OnLogin /\ LoginSettles
    \/ OnLogin /\ LoginRetries
    \/ OnLogin /\ PageLoad
    \/ OnLogin /\ RouteMount

\* every outstanding call gets its response: the remote API answers, and a
\* login call is not retried for ever
ResponsesArrive ==
    /\ WF_vars(PDFetchResponse)
    /\ WF_vars(PDCreateResponse)
    /\ WF_vars(EPFetchResponse)
    /\ WF_vars(EPUpdateResponse)
    /\ WF_vars(DashFetchResponse)
    /\ WF_vars(DashDeleteResponse)
    /\ SF_vars(LoginSettles)

SpecLive == InitLive /\ [][NextLive]_vars /\ ResponsesArrive

\* ------------------------------------------------- vocabulary of the claims
\* the refresh calls that are outstanding
OutstandingRefreshes == {r \in Reqs : req[r].pc = "refreshing"}

\* step predicates (used inside [][...]_vars)
\* r puts a call on the wire through `api` (first issue or replay)
IssuedViaApi(r) == req'[r].pc = "sent" /\ req'[r] # req[r]
\* r puts a refresh call on the wire
IssuedRefresh(r) == req[r].pc = "sent" /\ req'[r].pc = "refreshing"
\* r's refresh call resolved
RefreshSucceeded(r) == req[r].pc = "refreshing" /\ req'[r].pc = "sent"
\* r's refresh call rejected
RefreshFailed(r) ==
    req[r].pc = "refreshing" /\ req'[r].pc = "idle" /\ last' # NoResult
\* r is settled by a response to the call made through `api`
SettledByResponse(r) ==
    req[r].pc = "sent" /\ req'[r].pc = "idle" /\ last' # NoResult

AuthKinds == {"login", "register"}
FailureOutcomes == {"rejected401", "rejected", "failString", "failObject"}

\* ------------------------------------------------------------------ C1
\* C1: concurrent 401s share one refresh: at most one refresh call is
\* outstanding at any time.
C1_SingleRefreshOutstanding == Cardinality(OutstandingRefreshes) <= 1

\* ------------------------------------------------------------------ C2
\* C2: no recursion: one original request triggers at most one refresh call
\* and at most one replay, whatever the server answers.
C2_NoRecursion ==
    [][\A r \in Reqs : req[r].replayed =>
          /\ ~IssuedRefresh(r)
          /\ ~RefreshSucceeded(r)]_vars

\* ------------------------------------------------------------------ C3
\* C3: in every reachable state of the persisted session the access
\* credential and the user record are both present or both absent.
C3_NoPartialSession ==
    (localStorage.access_token = None) <=> (localStorage.user = None)

\* ------------------------------------------------------------------ C4
\* C4: after logout the store holds no access credential, no refresh
\* credential and no user, and stays empty until the next login or register.
C4_EmptyAfterLogout == loggedOut => localStorage = EmptyStorage

\* ------------------------------------------------------------------ C5
\* C5: when the refresh call fails the session is cleared entirely, the
\* caller's request fails and a redirect to the login entry point is signalled.
C5_RefreshFailureClearsSession ==
    [][\A r \in Reqs : RefreshFailed(r) =>
          /\ localStorage' = EmptyStorage
          /\ last'.outcome \in FailureOutcomes
          /\ href' = "/login"]_vars

\* ------------------------------------------------------------------ C6
\* C6: after a 401 and a successful refresh the stored access credential is
\* the new one before the replay, the original request is replayed exactly
\* once carrying the new credential, and the response to that replay settles
\* the original call.
C6_ReplayOnceWithNewCredential ==
    [][\A r \in Reqs :
          /\ RefreshSucceeded(r) =>
                /\ localStorage'.access_token \in Tokens
                /\ req'[r].bearer = localStorage'.access_token
                /\ ~req[r].replayed
          /\ (req[r].pc = "sent" /\ req[r].replayed /\ req'[r].pc # "sent"
                /\ loading' = loading) => SettledByResponse(r)]_vars

\* ------------------------------------------------------------------ C7
\* C7: a 401 received while no refresh credential is stored never starts a
\* refresh call; the error reaches the caller as it is and the session store
\* is left unchanged.
C7_NoRefreshWithoutCredential ==
    [][\A r \in Reqs :
          (req[r].pc = "sent" /\ localStorage.refresh_token = None) =>
             /\ ~IssuedRefresh(r)
             /\ (SettledByResponse(r) /\ last'.resp.status = 401) =>
                   /\ localStorage' = localStorage
                   /\ last'.resp = Error401
                   /\ last'.outcome = Rejected(req[r].kind, Error401)]_vars

\* a call was settled by a 401 while nothing was stored and no refresh
\* failure ever redirected
C7_Witness ==
    /\ last.resp.status = 401
    /\ last.outcome = "rejected401"
    /\ localStorage = EmptyStorage
    /\ href = "/"

\* ------------------------------------------------------------------ C8
\* C8 (as stated): every outbound request issued while an access credential
\* is stored carries it as bearer, the token refresh call included; a request
\* issued while none is stored carries none.
C8_EveryRequestCarriesBearer ==
    [][\A r \in Reqs : (IssuedViaApi(r) \/ IssuedRefresh(r)) =>
          req'[r].bearer = localStorage'.access_token]_vars

\* C8 (amended): every request issued through the API client (first issue or
\* replay) carries the stored access credential, and none when none is
\* stored; the token refresh call carries no bearer credential.
C8_ApiRequestsCarryBearer ==
    [][\A r \in Reqs :
          /\ IssuedViaApi(r) => req'[r].bearer = localStorage'.access_token
          /\ IssuedRefresh(r) => req'[r].bearer = None]_vars

\* one call on the wire with the stored credential as bearer while another
\* call's refresh is outstanding
C8_Witness ==
    \E r, q \in Reqs : /\ req[r].pc = "sent"
                       /\ req[r].bearer \in Tokens
                       /\ req[r].bearer = localStorage.access_token
                       /\ req[q].pc = "refreshing"

\* ------------------------------------------------------------------ C9
\* C9: a successful login or register stores exactly the returned access
\* credential, refresh credential and user record, sets the in-memory user to
\* the returned user and returns success.
C9_LoginStoresSession ==
    [][\A r \in Reqs :
          (SettledByResponse(r) /\ req[r].kind \in AuthKinds
              /\ last'.resp.status = 200) =>
             /\ localStorage'.access_token = last'.resp.access
             /\ localStorage'.refresh_token = last'.resp.refresh
             /\ JSONParse(localStorage'.user) = last'.resp.user
             /\ user' = last'.resp.user
             /\ last'.outcome = "success"]_vars

\* login returning user alice, access A1, refresh R1 gave the session
\* (A1, R1, alice)
C9_Witness ==
    /\ last = [kind |-> "login", outcome |-> "success",
                resp |-> [status |-> 200, user |-> "alice",
                          access |-> "A1", refresh |-> "R1"]]
    /\ localStorage = [access_token |-> "A1", refresh_token |-> "R1",
                       user |-> "{id:1,username:alice}"]
    /\ user = "alice"

\* ------------------------------------------------------------------ C10
\* C10: a failed login or register returns a structured error and does not
\* mutate the session: stored credentials, stored user and in-memory user are
\* the same after the call as before, for every prior session state.
C10_FailedLoginKeepsSession ==
    [][\A r \in Reqs :
          (req[r].kind \in AuthKinds
              /\ (SettledByResponse(r) \/ RefreshFailed(r))
              /\ last'.outcome # "success") =>
             /\ last'.outcome \in {"failString", "failObject"}
             /\ localStorage' = localStorage
             /\ user' = user]_vars

\* ------------------------------------------------------------------ C11
\* the restore-on-mount effect ran in this step
MountStep == loading /\ ~loading'
\* a persisted state that holds a session: a token and a serialized user
WellFormed(ls) ==
    ls.access_token # None /\ ls.user # None /\ JSONParse(ls.user) \in Users

C12_LoadKeepsPersisted ==
    [][(MountStep /\ WellFormed(localStorage)) =>
          /\ localStorage' = localStorage
          /\ user' = JSONParse(localStorage'.user)
          /\ JSONStringify(user') = localStorage'.user]_vars

\* the application started on the session (A2, R1, bob) and still holds it
C12_Witness ==
    /\ ~loading /\ user = "bob" /\ last = NoResult /\ ~loggedOut
    /\ localStorage = [access_token |-> "A2", refresh_token |-> "R1",
                       user |-> "{id:2,username:bob}"]
    /\ \A r \in Reqs : req[r].pc = "idle"

\* ------------------------------------------------------------------ C13
\* C13: a successful token refresh replaces only the access credential: the
\* stored refresh credential and the stored user record are unchanged by it.
C13_RefreshReplacesOnlyAccess ==
    [][\A r \in Reqs : RefreshSucceeded(r) =>
          /\ localStorage'.access_token \in Tokens
          /\ localStorage'.refresh_token = localStorage.refresh_token
          /\ localStorage'.user = localStorage.user
          /\ user' = user]_vars

\* a replay is on the wire with the refreshed credential A2 while the
\* session still holds R1 and alice
C13_Witness ==
    \E r \in Reqs : /\ req[r].pc = "sent" /\ req[r].replayed
                    /\ req[r].bearer = "A2"
                    /\ localStorage = [access_token |-> "A2",
                                       refresh_token |-> "R1",
                                       user |-> "{id:1,username:alice}"]
                    /\ user = "alice"

\* ------------------------------------------------------------------ C14
\* C14: a failure other than a 401 response (another HTTP status, or no
\* response at all) starts no refresh call and no replay, leaves the session
\* store unchanged and reaches the caller as the error it is.
C14_OnlyUnauthorizedIsRetried ==
    [][\A r \in Reqs :
          /\ IssuedRefresh(r) => req'[r].error.status = 401
          /\ req'[r].pc = "refreshing" => req'[r].error.status = 401
          /\ (SettledByResponse(r) /\ last'.resp.status \notin {200, 401}) =>
                /\ localStorage' = localStorage
                /\ user' = user
                /\ last'.outcome \in FailureOutcomes
                /\ last'.outcome = Rejected(req[r].kind, last'.resp)]_vars

\* a call failed without any response while a refresh credential was stored
C14_Witness ==
    /\ last.resp.status = 0
    /\ last.outcome = "rejected"
    /\ localStorage.refresh_token \in RTokens
    /\ localStorage.access_token \in Tokens

\* ------------------------------------------------------------------ C15
\* C15: a comment whose text is empty after trimming is never sent. No
\* outstanding create call carries such a text, and a submit of such a text
\* starts no call and changes nothing in the view or on the server.
BlankText(t) == Trim(t) = <<>>
C15_BlankCommentNeverSent ==
    /\ [](\A c \in calls : c.op = "create" => ~BlankText(c.content))
    /\ [][(event' = "submit" /\ BlankText(postDetail.commentText)) =>
            /\ calls' = calls
            /\ postDetail' = postDetail
            /\ serverComments' = serverComments]_vars

\* a submit of a text of one space has just been turned down
C15_Witness ==
    /\ event = "submit"
    /\ postDetail.commentText = <<" ">>
    /\ ~postDetail.commentLoading
    /\ calls = {}

\* ------------------------------------------------------------------ C16
\* C16: the result of a request that was superseded by a navigation is
\* discarded. When a getById call made for an id other than the current route
\* id settles, the post shown stays as it was.
SupersededFetch(c) == c.op = "getById" /\ c.id # postDetail.id
C16_StaleResultDiscarded ==
    [][\A c \in calls :
          (SupersededFetch(c) /\ c \notin calls') =>
              postDetail'.post = postDetail.post]_vars

\* ------------------------------------------------------------------ C17
\* C17: the edit form is presented, and an update request is outstanding,
\* only when the session user is the author of the post the route addresses.
C17_OwnershipGate ==
    /\ EditFormShown => user = AuthorOf(editPost.id)
    /\ \A c \in calls : c.op = "update" => user = AuthorOf(c.id)

\* ------------------------------------------------------------------ C18
\* C18: an unauthenticated visit to a protected route ends on the login page
\* with the destination recorded; a successful login then continues to the
\* recorded destination, or to /dashboard when none was recorded; a failed
\* login does not navigate (no router navigation, no assignment to
\* window.location).
LoginSettledOk(c) ==
    /\ c \in calls /\ req[c.slot].pc = "sent" /\ req'[c.slot].pc = "idle"
    /\ last'.kind = "login" /\ last'.outcome = "success"
LoginSettledFailed ==
    last'.kind = "login" /\ last'.outcome \in FailureOutcomes
C18_RedirectPreservesDestination ==
    [][/\ (event' \in ProtectedPaths /\ user = None) =>
              location' = [pathname |-> "/login", from |-> event']
       /\ \A c \in calls : (c.attached /\ LoginSettledOk(c)) =>
              location'.pathname =
                  (IF location.from # None THEN location.from ELSE "/dashboard")
       /\ LoginSettledFailed => (location' = location /\ href' = href)]_vars

\* ------------------------------------------------------------------ C19
\* C19: the comment list of the displayed post is append-only. A successful
\* create appends the returned comment at the end of the list that was
\* displayed and keeps the rest; a failed create leaves the list unchanged.
CreateSettled == \E c \in calls : c.op = "create" /\ c \notin calls'
IsPrefix(s, t) == Len(s) <= Len(t) /\ SubSeq(t, 1, Len(s)) = s
C19_CommentsAppendOnly ==
    [][CreateSettled =>
          IF serverComments' # serverComments
          THEN /\ postDetail'.post.id = postDetail.post.id
               /\ Len(postDetail'.post.comments) =
                      Len(postDetail.post.comments) + 1
               /\ IsPrefix(postDetail.post.comments, postDetail'.post.comments)
          ELSE postDetail'.post = postDetail.post]_vars

NotFoundShown == ~postDetail.loading /\ postDetail.post = NoPost
CurrentFetchFailed ==
    /\ event' = "getById"
    /\ ~postDetail.error /\ postDetail'.error
    /\ \E c \in calls : c \notin calls' /\ c.op = "getById" /\ c.id = postDetail.id
C21_AbsentPostShowsNotFound ==
    [][CurrentFetchFailed => NotFoundShown']_vars

\* ------------------------------------------------------------------ C22
\* C22: a rendered PostCard shows the post's title, its author's username and
\* its content: all of it when it has at most 200 characters, otherwise the
\* first 200 characters followed by "..."; the Read More link leads to the post.
CardRendered == postCard.view # NoRender
C22_PostCardShowsPost ==
    CardRendered =>
        LET post == postCard.post
            view == postCard.view
        IN /\ view.title = post.title
           /\ view.username = post.username
           /\ view.readMore = post.id
           /\ Len(post.content) <= 200 => view.shown = post.content
           /\ Len(post.content) > 200 =>
                 /\ Len(view.shown) = 203
                 /\ \A i \in 1..200 : view.shown[i] = post.content[i]
                 /\ \A i \in 201..203 : view.shown[i] = "."

\* a card was rendered for a content of 201 characters
C22_Witness ==
    /\ CardRendered
    /\ Len(postCard.post.content) = 201
    /\ Len(postCard.view.shown) = 203

\* ------------------------------------------------------------------ C23
\* C23: on the dashboard a delete request is issued only by a confirmed
\* delete, a delete that succeeds removes exactly its post from the displayed
\* list, and a delete that fails leaves the displayed list as it was.
DeleteIssued == \E c \in calls' : c \notin calls /\ c.op = "delete"
C23_DeleteStep ==
    /\ DeleteIssued => event' = "confirm"
    /\ event' = "cancel" => calls' = calls /\ dashboard' = dashboard
    /\ event' = "deleted" =>
          \E c \in calls : /\ c \notin calls'
                           /\ dashboard'.posts = Without(dashboard.posts, c.id)
    /\ event' = "deleteFailed" => dashboard'.posts = dashboard.posts
C23_ConfirmedDeleteRemovesOnePost == [][C23_DeleteStep]_vars

\* ------------------------------------------------------------------ C24
\* C24: after logout, until the next successful login or register, no request
\* put on the wire through the client carries a bearer credential, the replay
\* of a request whose refresh was in flight at logout included.
C24_NoBearerAfterLogout ==
    [][loggedOut =>
          \A r \in Reqs : IssuedViaApi(r) => req'[r].bearer = None]_vars

\* ------------------------------------------------------------------ C27
\* C27: the in-memory user is set only while an access credential is stored.
C27_UserImpliesAccessToken ==
    user # None => localStorage.access_token # None

\* ------------------------------------------------------------------ C25
\* C25: once every dashboard response has arrived, the displayed list is the
\* fetched posts minus the posts whose delete succeeded (the posts the server
\* still holds), however the deletes on different posts were interleaved.
DashboardSettled ==
    /\ calls = {}
    /\ ~dashboard.loading
    /\ dashboard.error # "fetch"
C25_DeletedPostsStayDeleted ==
    DashboardSettled => dashboard.posts = SortedSeq(serverPosts)

\* ------------------------------------------------------------------ C26
\* C26: once the user's posts have loaded, the totalPosts statistic equals the
\* number of displayed posts, after any successful and failed deletes.
PostsLoaded == ~dashboard.loading /\ dashboard.error # "fetch"
C26_TotalPostsCountsList ==
    PostsLoaded => dashboard.totalPosts = Len(dashboard.posts)

\* ------------------------------------------------------------------ C28
\* C28: ProtectedRoute shows its children only when the session has finished
\* loading and a user is signed in; while the session loads it shows the
\* spinner, neither the children nor a redirect; once loading has finished it
\* redirects to /login exactly when no user is signed in.
RedirectedToLogin ==
    /\ location' # location
    /\ location'.pathname = "/login"
    /\ location'.from # None
C28_RouteStep ==
    /\ Rendered' = "children" => ~loading' /\ user' # None
    /\ (loading' /\ location'.pathname \in ProtectedPaths) => Rendered' = "spinner"
    /\ Rendered' # "redirect"
    /\ RedirectedToLogin =>
          /\ ~loading' /\ user' = None
          /\ location'.from \in ProtectedPaths
C28_ProtectedRouteGate == [][C28_RouteStep]_vars

\* the page was opened at /dashboard without a session: when loading finished
\* the route redirected to /login
C28_Witness ==
    /\ event = "mount"
    /\ ~loading /\ user = None
    /\ location = [pathname |-> "/login", from |-> "/dashboard"]

\* ------------------------------------------------------------------ C29
\* C29: the token refresh call goes out with no bearer credential, and when it
\* fails, whatever its status, the request is settled at once: the failure
\* starts no further refresh call.
C29_RefreshCallOutsideClient ==
    [][\A r \in Reqs :
          /\ IssuedRefresh(r) => req'[r].bearer = None
          /\ RefreshFailed(r) =>
                /\ req'[r] = IdleReq
                /\ \A q \in Reqs : ~IssuedRefresh(q)]_vars

\* a refresh call failed: its 401 request was rejected, the credentials were
\* removed, and no refresh call is outstanding
C29_Witness ==
    /\ href = "/login"
    /\ last.outcome = "rejected401"
    /\ localStorage.refresh_token = None
    /\ \A r \in Reqs : req[r].pc # "refreshing"

TypeOK ==
    /\ localStorage.access_token \in Tokens \cup {None}
    /\ localStorage.refresh_token \in RTokens \cup {None}
    /\ user \in Users \cup {None}
    /\ loading \in BOOLEAN
    /\ \A r \in Reqs : req[r].pc \in {"idle", "sent", "refreshing"}
    /\ last.outcome \in {None, "resolved", "success"} \cup FailureOutcomes
    /\ postDetail.id \in PostIds \cup {0}
    /\ postDetail.commentText \in Texts
    /\ editPost.id \in PostIds \cup {0}
    /\ location.pathname \in Paths \cup {"/search"}
    /\ location.from \in ProtectedPaths \cup {None}
    /\ NumComments(serverComments) <= MaxComments
    /\ Len(home.posts) \in 0..PageSize
    /\ search.query \in Queries \cup {None}
    /\ postCard.post \in CardPosts \cup {NoCard}
    /\ serverPosts \subseteq UserPostIds
    /\ Displayed(dashboard.posts) \subseteq UserPostIds
    /\ dashboard.deleteLoading \in UserPostIds \cup {0}
    /\ dashboard.error \in {None, "fetch", "delete"}
====
